---- MODULE Spec2Model ----
(***************************************************************************)
(* Transaction CRUD service: API router -> TransactionService ->           *)
(* TransactionRepository -> the `transactions` table.                      *)
(*                                                                         *)
(* Strings are sequences of one-character strings, so that str.strip() is  *)
(* computed and "A" /= "a" /= " A".  Amounts are in hundredths (1050 is    *)
(* 10.50, -1 is -0.01).  The clock counts ticks of Asia/Colombo local      *)
(* time; a stamp is split into a date and a time of day as the code does.  *)
(*                                                                         *)
(* An optional value (None, a missing row, no exception) is a set with at  *)
(* most one element.                                                       *)
(***************************************************************************)
EXTENDS Integers, Sequences, FiniteSets, TLC

\* ------------------------------------------------------------------ bounds
\* Largest value of the clock.
MaxClock == 1
\* Largest number of rows the table holds when the process starts.
MaxSeed == 2
\* Clock ticks in one civil day.
TicksPerDay == 1

\* ------------------------------------------------------------------ inputs
Whitespace == {" ", "\t"}

\* reference numbers a caller may pass, in the body or as the key (the
\* empty key is the service's case: no URL carries an empty path segment)
ReferenceNumbers == {<<>>, <<" ">>, <<"A">>, <<"a">>}
\* payment methods a client may send
PaymentMethods == {<<>>, <<"\t">>, <<"k">>}
\* amounts a client may send: -0.01, 0, 10.50
Amounts == {-1, 0, 1050}
UserIds == {"u1"}
\* ids a client may ask for
TransactionIds == -1 .. (MaxSeed + 1)

\* ------------------------------------------------------------ the schema
\* TransactionModelCreate: the parsed request body
TransactionModelCreate ==
    [user_id : UserIds, reference_number : ReferenceNumbers,
     payment_method : PaymentMethods, amount : Amounts]

\* a column left out of the INSERT is NULL
Null == "NULL"

\* the columns declared nullable=False, the autoincrement key apart
NotNullColumns ==
    {"user_id", "reference_number", "payment_method", "amount", "date", "time"}

\* TransactionResponse.model_validate(row): user_id is not exposed
TransactionResponse(t) ==
    [id |-> t.id, reference_number |-> t.reference_number, date |-> t.date,
     time |-> t.time, payment_method |-> t.payment_method, amount |-> t.amount]

HTTPException(status_code, detail) ==
    [status_code |-> status_code, detail |-> detail]

\* ------------------------------------------------------------- pure parts
RECURSIVE lstrip(_)
lstrip(s) ==
    IF s = <<>> THEN <<>>
    ELSE IF Head(s) \in Whitespace THEN lstrip(Tail(s)) ELSE s

RECURSIVE rstrip(_)
rstrip(s) ==
    IF s = <<>> THEN <<>>
    ELSE IF s[Len(s)] \in Whitespace THEN rstrip(SubSeq(s, 1, Len(s) - 1)) ELSE s

\* str.strip()
strip(s) == rstrip(lstrip(s))

\* `not s`, without the strip
blank_nostrip(s) == s = <<>>

\* `not s or not s.strip()`
blank(s) == s = <<>> \/ strip(s) = <<>>

\* datetime.now(Asia/Colombo).date() and .time()
date(now) == now \div TicksPerDay
time(now) == now % TicksPerDay

\* ------------------------------------------------------------- the table
\* Query(...).filter(reference_number == ref) and filter(id == id)
filter_reference_number(db, reference_number) ==
    {t \in db : t.reference_number = reference_number}

filter_id(db, transaction_id) == {t \in db : t.id = transaction_id}

\* Query.first(): no ORDER BY, so any matching row may come first
first(q) == IF q = {} THEN {{}} ELSE {{t} : t \in q}

\* the rowid SQLite gives an INTEGER PRIMARY KEY row: one past the largest
next_id(db) ==
    IF db = {} THEN 1
    ELSE (CHOOSE i \in {t.id : t \in db} : \A t \in db : t.id <= i) + 1

\* db.add(transaction); db.commit(); db.refresh(transaction): the INSERT
\* fails (IntegrityError) when a NOT NULL column was given no value.
add_commit(db, transaction) ==
    IF NotNullColumns \ DOMAIN transaction # {}
    THEN [error |-> TRUE, db |-> db, row |-> {}]
    ELSE LET row == [id             |-> next_id(db),
                     user_id        |-> IF "user_id" \in DOMAIN transaction
                                        THEN transaction["user_id"] ELSE Null,
                     reference_number |-> transaction.reference_number,
                     payment_method |-> transaction.payment_method,
                     amount         |-> transaction.amount,
                     date           |-> transaction.date,
                     time           |-> transaction.time]
         IN [error |-> FALSE, db |-> db \cup {row}, row |-> {row}]

\* outcomes of a repository or service call
Returned(db, v) == [db |-> db, raised |-> {}, value |-> {v}]
Raised(db, e) == [db |-> db, raised |-> {e}, value |-> {}]

\* ----------------------------------------------------------- repository
\* create without its duplicate pre-check
create_found_no_duplicate_check(db, transaction_create, now, existing) ==
    LET transaction ==
            [reference_number |-> transaction_create.reference_number,
             payment_method   |-> transaction_create.payment_method,
             amount           |-> transaction_create.amount,
             date             |-> date(now),
             time             |-> time(now)]
        done == add_commit(db, transaction)
    IN IF done.error
       THEN Raised(db, HTTPException(500, "Failed to create transaction"))
       ELSE [db |-> done.db, raised |-> {}, value |-> done.row]

\* TransactionRepository.create, for one result of the duplicate query
create_found(db, transaction_create, now, existing) ==
    IF existing # {}
    THEN Raised(db, HTTPException(400, "Reference number already exists"))
    ELSE LET transaction ==
                 [reference_number |-> transaction_create.reference_number,
                  payment_method   |-> transaction_create.payment_method,
                  amount           |-> transaction_create.amount,
                  date             |-> date(now),
                  time             |-> time(now)]
             done == add_commit(db, transaction)
         IN IF done.error
            THEN \* except SQLAlchemyError: db.rollback()
                 Raised(db, HTTPException(500, "Failed to create transaction"))
            ELSE [db |-> done.db, raised |-> {}, value |-> done.row]

create(db, transaction_create, now) ==
    {create_found(db, transaction_create, now, existing) :
        existing \in first(filter_reference_number(db,
                               transaction_create.reference_number))}

get_by_id(db, transaction_id) ==
    {[db |-> db, raised |-> {}, value |-> transaction] :
        transaction \in first(filter_id(db, transaction_id))}

get_by_reference_number(db, reference_number) ==
    {[db |-> db, raised |-> {}, value |-> transaction] :
        transaction \in first(filter_reference_number(db, reference_number))}

\* update without the collision check on a changed reference number
update_found_no_collision_check(db, reference_number, transaction_update, now, transaction, existing) ==
    IF transaction = {}
    THEN Raised(db, HTTPException(404, "Transaction not found"))
    ELSE LET old == CHOOSE t \in transaction : TRUE
             new == [old EXCEPT
                       !.reference_number = transaction_update.reference_number,
                       !.payment_method   = transaction_update.payment_method,
                       !.amount           = transaction_update.amount,
                       !.date             = date(now),
                       !.time             = time(now)]
         IN Returned((db \ {old}) \cup {new}, new)

\* update that checks for a collision even when the reference number is kept
update_found_self_collision(db, reference_number, transaction_update, now, transaction, existing) ==
    IF transaction = {}
    THEN Raised(db, HTTPException(404, "Transaction not found"))
    ELSE IF existing # {}
    THEN Raised(db, HTTPException(400, "New reference number already exists"))
    ELSE LET old == CHOOSE t \in transaction : TRUE
             new == [old EXCEPT
                       !.reference_number = transaction_update.reference_number,
                       !.payment_method   = transaction_update.payment_method,
                       !.amount           = transaction_update.amount,
                       !.date             = date(now),
                       !.time             = time(now)]
         IN Returned((db \ {old}) \cup {new}, new)

\* update that leaves date and time as they were
update_found_no_restamp(db, reference_number, transaction_update, now, transaction, existing) ==
    IF transaction = {}
    THEN Raised(db, HTTPException(404, "Transaction not found"))
    ELSE IF transaction_update.reference_number # reference_number
            /\ existing # {}
    THEN Raised(db, HTTPException(400, "New reference number already exists"))
    ELSE LET old == CHOOSE t \in transaction : TRUE
             new == [old EXCEPT
                       !.reference_number = transaction_update.reference_number,
                       !.payment_method   = transaction_update.payment_method,
                       !.amount           = transaction_update.amount]
         IN Returned((db \ {old}) \cup {new}, new)

\* update that looks for a collision before it looks for the record
update_found_collision_first(db, reference_number, transaction_update, now, transaction, existing) ==
    IF transaction_update.reference_number # reference_number
       /\ existing # {}
    THEN Raised(db, HTTPException(400, "New reference number already exists"))
    ELSE IF transaction = {}
    THEN Raised(db, HTTPException(404, "Transaction not found"))
    ELSE LET old == CHOOSE t \in transaction : TRUE
             new == [old EXCEPT
                       !.reference_number = transaction_update.reference_number,
                       !.payment_method   = transaction_update.payment_method,
                       !.amount           = transaction_update.amount,
                       !.date             = date(now),
                       !.time             = time(now)]
         IN Returned((db \ {old}) \cup {new}, new)

\* update that writes the new values to a second row and keeps the old one
update_found_keeps_old(db, reference_number, transaction_update, now, transaction, existing) ==
    IF transaction = {}
    THEN Raised(db, HTTPException(404, "Transaction not found"))
    ELSE IF transaction_update.reference_number # reference_number
            /\ existing # {}
    THEN Raised(db, HTTPException(400, "New reference number already exists"))
    ELSE LET old == CHOOSE t \in transaction : TRUE
             new == [old EXCEPT
                       !.reference_number = transaction_update.reference_number,
                       !.payment_method   = transaction_update.payment_method,
                       !.amount           = transaction_update.amount,
                       !.date             = date(now),
                       !.time             = time(now)]
         IN Returned(db \cup {new}, new)

\* TransactionRepository.update_by_reference_number, for one result of
\* each of its two queries
update_found(db, reference_number, transaction_update, now, transaction, existing) ==
    IF transaction = {}
    THEN Raised(db, HTTPException(404, "Transaction not found"))
    ELSE IF transaction_update.reference_number # reference_number
            /\ existing # {}
    THEN Raised(db, HTTPException(400, "New reference number already exists"))
    ELSE LET old == CHOOSE t \in transaction : TRUE
             new == [old EXCEPT
                       !.reference_number = transaction_update.reference_number,
                       !.payment_method   = transaction_update.payment_method,
                       !.amount           = transaction_update.amount,
                       !.date             = date(now),
                       !.time             = time(now)]
         IN Returned((db \ {old}) \cup {new}, new)

update_by_reference_number(db, reference_number, transaction_update, now) ==
    {update_found(db, reference_number, transaction_update, now,
                  transaction, existing) :
        transaction \in first(filter_reference_number(db, reference_number)),
        existing \in first(filter_reference_number(db,
                               transaction_update.reference_number))}

\* delete that never commits the DELETE
delete_found_no_commit(db, transaction) ==
    IF transaction = {}
    THEN Raised(db, HTTPException(404, "Transaction not found"))
    ELSE Returned(db, TRUE)

delete_found(db, transaction) ==
    IF transaction = {}
    THEN Raised(db, HTTPException(404, "Transaction not found"))
    ELSE Returned(db \ transaction, TRUE)

delete_by_reference_number(db, reference_number) ==
    {delete_found(db, transaction) :
        transaction \in first(filter_reference_number(db, reference_number))}

\* -------------------------------------------------------------- service
\* amount validated with < instead of <=
validate_transaction_create_negative_only(transaction_create) ==
    IF blank(transaction_create.reference_number)
    THEN {HTTPException(400, "Reference number is required")}
    ELSE IF blank(transaction_create.payment_method)
    THEN {HTTPException(400, "Payment method is required")}
    ELSE IF transaction_create.amount < 0
    THEN {HTTPException(400, "Amount must be greater than zero")}
    ELSE {}

\* validation that never looks at payment_method
validate_transaction_create_no_payment_check(transaction_create) ==
    IF blank(transaction_create.reference_number)
    THEN {HTTPException(400, "Reference number is required")}
    ELSE IF transaction_create.amount <= 0
    THEN {HTTPException(400, "Amount must be greater than zero")}
    ELSE {}

\* Each validator yields the exception it raises, if any.
validate_transaction_create(transaction_create) ==
    IF blank(transaction_create.reference_number)
    THEN {HTTPException(400, "Reference number is required")}
    ELSE IF blank(transaction_create.payment_method)
    THEN {HTTPException(400, "Payment method is required")}
    ELSE IF transaction_create.amount <= 0
    THEN {HTTPException(400, "Amount must be greater than zero")}
    ELSE {}

validate_transaction_id(transaction_id) ==
    IF transaction_id <= 0
    THEN {HTTPException(400, "Invalid transaction ID")}
    ELSE {}

validate_reference_number(reference_number) ==
    IF blank(reference_number)
    THEN {HTTPException(400, "Reference number is required")}
    ELSE {}

\* update that validates the path's reference number only
validate_update_key_only(reference_number, transaction_update) ==
    validate_reference_number(reference_number)

\* validators of update, in the order the service runs them
validate_update(reference_number, transaction_update) ==
    IF validate_reference_number(reference_number) # {}
    THEN validate_reference_number(reference_number)
    ELSE validate_transaction_create(transaction_update)

\* A service outcome: the repository outcome with the record converted to
\* the response shape, and the repository methods the request invoked.
Rejected(db, e) == [db |-> db, raised |-> e, value |-> {}, calls |-> <<>>]

Converted(o, method) ==
    [db |-> o.db, raised |-> o.raised,
     value |-> {TransactionResponse(t) : t \in o.value},
     calls |-> <<method>>]

\* a read that passes None on to the conversion
ConvertedOr404_none_passes(o, method) ==
    [db |-> o.db, raised |-> o.raised,
     value |-> {TransactionResponse(t) : t \in o.value},
     calls |-> <<method>>]

\* a read that found nothing is NotFound
ConvertedOr404(o, method) ==
    IF o.raised = {} /\ o.value = {}
    THEN [db |-> o.db, raised |-> {HTTPException(404, "Transaction not found")},
          value |-> {}, calls |-> <<method>>]
    ELSE Converted(o, method)

create_transaction(db, transaction_create, now) ==
    IF validate_transaction_create(transaction_create) # {}
    THEN {Rejected(db, validate_transaction_create(transaction_create))}
    ELSE {Converted(o, "create") : o \in create(db, transaction_create, now)}

get_transaction_by_id(db, transaction_id) ==
    IF validate_transaction_id(transaction_id) # {}
    THEN {Rejected(db, validate_transaction_id(transaction_id))}
    ELSE {ConvertedOr404(o, "get_by_id") : o \in get_by_id(db, transaction_id)}

get_transaction_by_reference_number(db, reference_number) ==
    IF validate_reference_number(reference_number) # {}
    THEN {Rejected(db, validate_reference_number(reference_number))}
    ELSE {ConvertedOr404(o, "get_by_reference_number") :
             o \in get_by_reference_number(db, reference_number)}

update_transaction_by_reference_number(db, reference_number, transaction_update, now) ==
    IF validate_update(reference_number, transaction_update) # {}
    THEN {Rejected(db, validate_update(reference_number, transaction_update))}
    ELSE {Converted(o, "update_by_reference_number") :
             o \in update_by_reference_number(db, reference_number,
                                              transaction_update, now)}

delete_transaction_by_reference_number(db, reference_number) ==
    IF validate_reference_number(reference_number) # {}
    THEN {Rejected(db, validate_reference_number(reference_number))}
    ELSE {[db |-> o.db, raised |-> o.raised,
           value |-> {[message |-> reference_number] : ok \in o.value},
           calls |-> <<"delete_by_reference_number">>] :
             o \in delete_by_reference_number(db, reference_number)}

\* ------------------------------------------------------------- the state
VARIABLES
    store,   \* the committed rows of the transactions table
    clock,   \* now, in Asia/Colombo
    req,     \* the last request handled
    resp,    \* its response
    prev,    \* the rows before it was handled
    inflight \* per worker, the request it is in the middle of handling

vars == <<store, clock, req, resp, prev, inflight>>

\* workers that may handle requests side by side on one database file
Workers == {1, 2}

Idle == [pc |-> "idle", op |-> "none", reference_number |-> <<>>,
         body |-> {}, loaded |-> {}, raised |-> {}, rivals |-> {}]

\* A row the table may hold when the process starts: the database file
\* outlives the process and create_all only adds a missing table.  Such
\* rows satisfy the column constraints, and what the handlers below keep
\* true of a table: distinct reference numbers, non-blank strings, a
\* positive amount.
SeedRow(i, reference_number) ==
    [id |-> i, user_id |-> "u1", reference_number |-> reference_number,
     payment_method |-> <<"c">>, amount |-> 2000, date |-> date(0), time |-> time(0)]

SeedReferenceNumbers == {r \in ReferenceNumbers : ~blank(r)}

\* rows 1..n, n <= MaxSeed, with distinct reference numbers
SeedStores ==
    UNION {{ {SeedRow(i, f[i]) : i \in 1..n} :
               f \in {g \in [1..n -> SeedReferenceNumbers] :
                         \A i, j \in 1..n : i # j => g[i] # g[j]} } :
           n \in 0..MaxSeed}

NoRequest ==
    [op |-> "none", transaction_id |-> 0, reference_number |-> <<>>,
     body |-> {}, now |-> 0]

NoResponse == [status_code |-> 0, detail |-> "", body |-> {}, calls |-> <<>>]

Init ==
    /\ store \in SeedStores
    /\ clock = 0
    /\ req = NoRequest
    /\ resp = NoResponse
    /\ prev = store
    /\ inflight = [w \in Workers |-> Idle]

\* ------------------------------------------------------------ API layer
\* The handler returns the service's value with the route's success code,
\* or lets the service's HTTPException through unchanged.
Respond(o, success_code) ==
    IF o.raised # {}
    THEN LET e == CHOOSE x \in o.raised : TRUE
         IN [status_code |-> e.status_code, detail |-> e.detail,
             body |-> {}, calls |-> o.calls]
    ELSE [status_code |-> success_code, detail |-> "",
          body |-> o.value, calls |-> o.calls]

Handle(request, o, success_code) ==
    /\ req' = request
    /\ resp' = Respond(o, success_code)
    /\ store' = o.db
    /\ prev' = store
    /\ UNCHANGED <<clock, inflight>>

\* POST /transactions/
CreateTransaction ==
    \E transaction_create \in TransactionModelCreate :
      \E o \in create_transaction(store, transaction_create, clock) :
        Handle([op |-> "create", transaction_id |-> 0,
                reference_number |-> <<>>, body |-> {transaction_create},
                now |-> clock], o, 201)

\* GET /transactions/{transaction_id}
GetTransaction ==
    \E transaction_id \in TransactionIds :
      \E o \in get_transaction_by_id(store, transaction_id) :
        Handle([op |-> "get_by_id", transaction_id |-> transaction_id,
                reference_number |-> <<>>, body |-> {}, now |-> clock], o, 200)

\* GET /transactions/reference/{reference_number}
GetTransactionByReference ==
    \E reference_number \in ReferenceNumbers :
      \E o \in get_transaction_by_reference_number(store, reference_number) :
        Handle([op |-> "get_by_reference", transaction_id |-> 0,
                reference_number |-> reference_number, body |-> {},
                now |-> clock], o, 200)

\* PUT /transactions/reference/{reference_number}
UpdateTransactionByReference ==
    \E reference_number \in ReferenceNumbers :
      \E transaction_update \in TransactionModelCreate :
        \E o \in update_transaction_by_reference_number(
                     store, reference_number, transaction_update, clock) :
          Handle([op |-> "update", transaction_id |-> 0,
                  reference_number |-> reference_number,
                  body |-> {transaction_update}, now |-> clock], o, 200)

\* DELETE /transactions/reference/{reference_number}
DeleteTransactionByReference ==
    \E reference_number \in ReferenceNumbers :
      \E o \in delete_transaction_by_reference_number(store, reference_number) :
        Handle([op |-> "delete", transaction_id |-> 0,
                reference_number |-> reference_number, body |-> {},
                now |-> clock], o, 200)

\* time passes between requests
Tick ==
    /\ clock < MaxClock
    /\ clock' = clock + 1
    /\ UNCHANGED <<store, req, resp, prev, inflight>>

Next ==
    \/ CreateTransaction
    \/ GetTransaction
    \/ GetTransactionByReference
    \/ UpdateTransactionByReference
    \/ DeleteTransactionByReference
    \/ Tick

\* requests are handled one at a time, each to completion
Spec == Init /\ [][Next]_vars

\* ------------------------------------------------- interleaved requests
\* Two workers on the same database file, interleaved at the repository's
\* steps: the queries that decide NotFound and Conflict, then the write and
\* its commit.  (One uvicorn process runs each async handler to its end,
\* since the handlers never await; the steps interleave when several
\* processes serve the same file.)

\* reference numbers and bodies the racing requests use
RaceReferenceNumbers == {<<"A">>, <<"a">>, <<"B">>}

RaceBodies ==
    {[user_id |-> "u1", reference_number |-> r, payment_method |-> <<"k">>,
      amount |-> 1050] : r \in RaceReferenceNumbers}

\* create, from the row construction on: what is left once the duplicate
\* query found nothing
create_write(db, transaction_create, now) ==
    LET transaction ==
            [reference_number |-> transaction_create.reference_number,
             payment_method   |-> transaction_create.payment_method,
             amount           |-> transaction_create.amount,
             date             |-> date(now),
             time             |-> time(now)]
        done == add_commit(db, transaction)
    IN IF done.error
       THEN Raised(db, HTTPException(500, "Failed to create transaction"))
       ELSE [db |-> done.db, raised |-> {}, value |-> done.row]

\* the exception update's two queries end in, if any
update_precheck(reference_number, transaction_update, transaction, existing) ==
    IF transaction = {}
    THEN {HTTPException(404, "Transaction not found")}
    ELSE IF transaction_update.reference_number # reference_number
            /\ existing # {}
    THEN {HTTPException(400, "New reference number already exists")}
    ELSE {}

\* update, from the assignments on: the UPDATE sets the columns whose new
\* value differs from the loaded one, on the row with the loaded id; a row
\* gone meanwhile is a StaleDataError
update_write(db, loaded, transaction_update, now) ==
    LET current == filter_id(db, loaded.id)
    IN IF current = {}
       THEN Raised(db, HTTPException(500, "Failed to update transaction"))
       ELSE LET old == CHOOSE t \in current : TRUE
                set == [reference_number |-> transaction_update.reference_number,
                        payment_method   |-> transaction_update.payment_method,
                        amount           |-> transaction_update.amount,
                        date             |-> date(now),
                        time             |-> time(now)]
                new == [c \in DOMAIN old |->
                          IF c \in DOMAIN set /\ set[c] # loaded[c]
                          THEN set[c] ELSE old[c]]
            IN Returned((db \ {old}) \cup {new}, new)

\* a worker takes a create and runs it up to the duplicate query
PreCheckCreate(w) ==
    /\ inflight[w].pc = "idle"
    /\ \E transaction_create \in RaceBodies :
         \E existing \in first(filter_reference_number(store,
                                   transaction_create.reference_number)) :
           inflight' = [inflight EXCEPT ![w] =
               [pc |-> "checked", op |-> "create", reference_number |-> <<>>,
                body |-> {transaction_create}, loaded |-> {},
                rivals |-> {},
                raised |-> IF validate_transaction_create(transaction_create) # {}
                           THEN validate_transaction_create(transaction_create)
                           ELSE IF existing # {}
                           THEN {HTTPException(400, "Reference number already exists")}
                           ELSE {}]]
    /\ UNCHANGED <<store, clock, req, resp, prev>>

\* a worker takes an update and runs it up to its two queries
PreCheckUpdate(w) ==
    /\ inflight[w].pc = "idle"
    /\ \E reference_number \in RaceReferenceNumbers :
         \E transaction_update \in RaceBodies :
           \E transaction \in first(filter_reference_number(store, reference_number)) :
             \E existing \in first(filter_reference_number(store,
                                       transaction_update.reference_number)) :
               inflight' = [inflight EXCEPT ![w] =
                   [pc |-> "checked", op |-> "update",
                    reference_number |-> reference_number,
                    body |-> {transaction_update}, loaded |-> transaction,
                    rivals |-> {},
                    raised |-> IF validate_update(reference_number, transaction_update) # {}
                               THEN validate_update(reference_number, transaction_update)
                               ELSE update_precheck(reference_number,
                                        transaction_update, transaction, existing)]]
    /\ UNCHANGED <<store, clock, req, resp, prev>>

\* the worker's request ends: with the exception of its queries, or with
\* its write and commit against the table as it is now.  rivals notes
\* which requests had their queries done and their write pending when one
\* of the two wrote.
Finish(w, o, success_code) ==
    /\ req' = [op |-> inflight[w].op, transaction_id |-> 0,
               reference_number |-> inflight[w].reference_number,
               body |-> inflight[w].body, now |-> clock]
    /\ resp' = Respond(o, success_code)
    /\ store' = o.db
    /\ prev' = store
    /\ inflight' =
         [v \in Workers |->
            IF v = w
            THEN [inflight[w] EXCEPT
                    !.pc = IF o.raised = {} THEN "stored" ELSE "failed",
                    !.rivals = @ \cup {u \in Workers \ {w} :
                                          inflight[u].pc = "checked"}]
            ELSE IF inflight[v].pc = "checked"
            THEN [inflight[v] EXCEPT !.rivals = @ \cup {w}]
            ELSE inflight[v]]
    /\ UNCHANGED clock

WriteCreate(w) ==
    /\ inflight[w].pc = "checked"
    /\ inflight[w].op = "create"
    /\ LET transaction_create == CHOOSE b \in inflight[w].body : TRUE
           o == IF inflight[w].raised # {}
                THEN [db |-> store, raised |-> inflight[w].raised, value |-> {}]
                ELSE create_write(store, transaction_create, clock)
       IN Finish(w, Converted(o, "create"), 201)

WriteUpdate(w) ==
    /\ inflight[w].pc = "checked"
    /\ inflight[w].op = "update"
    /\ LET transaction_update == CHOOSE b \in inflight[w].body : TRUE
           o == IF inflight[w].raised # {}
                THEN [db |-> store, raised |-> inflight[w].raised, value |-> {}]
                ELSE update_write(store, CHOOSE t \in inflight[w].loaded : TRUE,
                                  transaction_update, clock)
       IN Finish(w, Converted(o, "update_by_reference_number"), 200)

NextRace ==
    \E w \in Workers :
        \/ PreCheckCreate(w)
        \/ PreCheckUpdate(w)
        \/ WriteCreate(w)
        \/ WriteUpdate(w)

\* each worker handles one request; their steps interleave freely
SpecRace == Init /\ [][NextRace]_vars

\* ------------------------------------------------------ faults and 422
\* Where a request may go wrong on its way:
\*   "query"    the method's first db.query(...).first() raises a
\*              SQLAlchemyError,
\*   "commit"   db.commit() raises one, and nothing is committed,
\*   "refresh"  db.refresh() raises one, after the commit went through,
\*   "convert"  TransactionResponse.model_validate raises (no HTTPException).
Faults == {"none", "query", "commit", "refresh", "convert"}

\* keys and bodies of the requests handled under faults
FaultKeys == {<<" ">>, <<"A">>, <<"a">>}

FaultBodies ==
    {b \in TransactionModelCreate :
        /\ b.reference_number \in FaultKeys
        /\ b.payment_method = <<"k">>
        /\ b.amount \in {0, 1050}}

\* `except SQLAlchemyError: db.rollback(); raise HTTPException(500, ...)`
\* around a repository method whose fault-free outcomes are given; points
\* are the storage calls the method makes.  The rollback drops what was not
\* committed; what db.commit() wrote stays.
except_SQLAlchemyError(db, outcomes, fault, points, failure) ==
    IF fault \notin points THEN outcomes
    ELSE IF fault = "query" THEN {Raised(db, failure)}
    ELSE {IF o.raised # {} THEN o
          ELSE IF fault = "commit" THEN Raised(db, failure)
          ELSE Raised(o.db, failure) : o \in outcomes}

\* `except HTTPException: raise` that swallows the exception instead
except_Exception_swallows(o, fault) ==
    IF o.raised # {} \/ fault = "convert"
    THEN [o EXCEPT !.raised = {HTTPException(500, "Internal server error")},
                   !.value = {}]
    ELSE o

\* the service's `except HTTPException: raise` and `except Exception:
\* raise HTTPException(500, "Internal server error")` around a call whose
\* outcome up to the conversion is o
except_Exception(o, fault) ==
    IF o.raised = {} /\ fault = "convert"
    THEN [o EXCEPT !.raised = {HTTPException(500, "Internal server error")},
                   !.value = {}]
    ELSE o

create_transaction_under(db, transaction_create, now, fault) ==
    IF validate_transaction_create(transaction_create) # {}
    THEN {Rejected(db, validate_transaction_create(transaction_create))}
    ELSE {except_Exception(Converted(o, "create"), fault) :
             o \in except_SQLAlchemyError(db, create(db, transaction_create, now),
                       fault, {"query", "commit", "refresh"},
                       HTTPException(500, "Failed to create transaction"))}

get_transaction_by_id_under(db, transaction_id, fault) ==
    IF validate_transaction_id(transaction_id) # {}
    THEN {Rejected(db, validate_transaction_id(transaction_id))}
    ELSE {except_Exception(ConvertedOr404(o, "get_by_id"), fault) :
             o \in except_SQLAlchemyError(db, get_by_id(db, transaction_id),
                       fault, {"query"},
                       HTTPException(500, "Failed to retrieve transaction"))}

get_transaction_by_reference_number_under(db, reference_number, fault) ==
    IF validate_reference_number(reference_number) # {}
    THEN {Rejected(db, validate_reference_number(reference_number))}
    ELSE {except_Exception(ConvertedOr404(o, "get_by_reference_number"), fault) :
             o \in except_SQLAlchemyError(db,
                       get_by_reference_number(db, reference_number),
                       fault, {"query"},
                       HTTPException(500, "Failed to retrieve transaction"))}

update_transaction_by_reference_number_under(db, reference_number, transaction_update, now, fault) ==
    IF validate_update(reference_number, transaction_update) # {}
    THEN {Rejected(db, validate_update(reference_number, transaction_update))}
    ELSE {except_Exception(Converted(o, "update_by_reference_number"), fault) :
             o \in except_SQLAlchemyError(db,
                       update_by_reference_number(db, reference_number,
                                                  transaction_update, now),
                       fault, {"query", "commit", "refresh"},
                       HTTPException(500, "Failed to update transaction"))}

\* delete converts nothing and refreshes nothing
delete_transaction_by_reference_number_under(db, reference_number, fault) ==
    IF validate_reference_number(reference_number) # {}
    THEN {Rejected(db, validate_reference_number(reference_number))}
    ELSE {[db |-> o.db, raised |-> o.raised,
           value |-> {[message |-> reference_number] : ok \in o.value},
           calls |-> <<"delete_by_reference_number">>] :
             o \in except_SQLAlchemyError(db,
                       delete_by_reference_number(db, reference_number),
                       fault, {"query", "commit"},
                       HTTPException(500, "Failed to delete transaction"))}

\* a request as the handlers below record it
FaultRequest(op, transaction_id, reference_number, body, fault) ==
    [op |-> op, transaction_id |-> transaction_id,
     reference_number |-> reference_number, body |-> body, now |-> clock,
     fault |-> fault, parsed |-> TRUE]

CreateUnderFault ==
    \E transaction_create \in FaultBodies, fault \in Faults :
      \E o \in create_transaction_under(store, transaction_create, clock, fault) :
        Handle(FaultRequest("create", 0, <<>>, {transaction_create}, fault), o, 201)

GetUnderFault ==
    \E transaction_id \in TransactionIds, fault \in Faults :
      \E o \in get_transaction_by_id_under(store, transaction_id, fault) :
        Handle(FaultRequest("get_by_id", transaction_id, <<>>, {}, fault), o, 200)

GetByReferenceUnderFault ==
    \E reference_number \in FaultKeys, fault \in Faults :
      \E o \in get_transaction_by_reference_number_under(store, reference_number, fault) :
        Handle(FaultRequest("get_by_reference", 0, reference_number, {}, fault), o, 200)

UpdateUnderFault ==
    \E reference_number \in FaultKeys, transaction_update \in FaultBodies,
       fault \in Faults :
      \E o \in update_transaction_by_reference_number_under(
                   store, reference_number, transaction_update, clock, fault) :
        Handle(FaultRequest("update", 0, reference_number,
                            {transaction_update}, fault), o, 200)

DeleteUnderFault ==
    \E reference_number \in FaultKeys, fault \in Faults :
      \E o \in delete_transaction_by_reference_number_under(store, reference_number, fault) :
        Handle(FaultRequest("delete", 0, reference_number, {}, fault), o, 200)

\* A body that does not parse as TransactionModelCreate (user_id left out,
\* say) or a transaction_id that is no integer: FastAPI answers 422 and the
\* handler does not run.
RequestValidationError ==
    \E op \in {"create", "update", "get_by_id"} :
      /\ req' = [op |-> op, transaction_id |-> 0, reference_number |-> <<>>,
                 body |-> {}, now |-> clock, fault |-> "none", parsed |-> FALSE]
      /\ resp' = [status_code |-> 422, detail |-> "RequestValidationError",
                  body |-> {}, calls |-> <<>>]
      /\ prev' = store
      /\ UNCHANGED <<store, clock, inflight>>

NextFault ==
    \/ CreateUnderFault
    \/ GetUnderFault
    \/ GetByReferenceUnderFault
    \/ UpdateUnderFault
    \/ DeleteUnderFault
    \/ RequestValidationError
    \/ Tick

\* requests handled one at a time, with storage faults and unparsed input
SpecFault == Init /\ [][NextFault]_vars

\* =============================================================== claims
\* what the claims say of a request, stated from its input alone
Body == CHOOSE b \in req.body : TRUE

\* empty, or whitespace only
IsBlank(str) == \A i \in 1..Len(str) : str[i] \in Whitespace

ValidBody(b) ==
    /\ ~IsBlank(b.reference_number)
    /\ ~IsBlank(b.payment_method)
    /\ b.amount > 0

\* a live record of db holds reference_number
Live(db, reference_number) ==
    \E t \in db : t.reference_number = reference_number

\* C1: handling requests one at a time, no two live records ever have the
\* same reference_number (exact, case-sensitive match).
C1_UniqueReferenceNumbers ==
    \A t, u \in store : t.reference_number = u.reference_number => t = u

\* two live records, <<"A">> and <<"a">>, after an update went through
C1_Witness ==
    /\ req.op = "update"
    /\ resp.status_code = 200
    /\ store # prev
    /\ {t.reference_number : t \in store} = {<<"A">>, <<"a">>}

\* C2: a valid create whose reference_number no live record holds succeeds
\* with 201, adds exactly one record carrying the request's fields, and
\* returns it with an assigned id and the server's date and time.
C2_FreshCreateSucceeds ==
    (req.op = "create" /\ ValidBody(Body)
        /\ ~Live(prev, Body.reference_number))
    => /\ resp.status_code = 201
       /\ \E t \in store \ prev :
            /\ store = prev \cup {t}
            /\ t.reference_number = Body.reference_number
            /\ t.payment_method = Body.payment_method
            /\ t.amount = Body.amount
            /\ t.date = date(req.now)
            /\ t.time = time(req.now)
            /\ \A u \in prev : u.id # t.id
            /\ resp.body = {TransactionResponse(t)}

\* C3: a valid create whose reference_number a live record holds fails
\* with 400 "Reference number already exists" and stores nothing.
C3_DuplicateCreateRejected ==
    (req.op = "create" /\ ValidBody(Body)
        /\ Live(prev, Body.reference_number))
    => /\ resp.status_code = 400
       /\ resp.detail = "Reference number already exists"
       /\ store = prev

\* a rejected duplicate whose other fields differ from the stored record's
C3_Witness ==
    /\ req.op = "create"
    /\ ValidBody(Body)
    /\ \E t \in prev :
         /\ t.reference_number = Body.reference_number
         /\ t.payment_method # Body.payment_method
         /\ t.amount # Body.amount
    /\ resp.status_code = 400

\* C4: a valid update of an existing record fails with 400 and changes
\* nothing when it renames the record to a reference number another live
\* record holds, and succeeds with 200 when it keeps the reference number.
C4_UpdateCollision ==
    (req.op = "update" /\ ValidBody(Body) /\ ~IsBlank(req.reference_number)
        /\ Live(prev, req.reference_number))
    => /\ (Body.reference_number # req.reference_number
             /\ Live(prev, Body.reference_number))
          => (resp.status_code = 400 /\ store = prev)
       /\ Body.reference_number = req.reference_number
          => resp.status_code = 200

\* a rename refused because another record holds the new reference number
C4_Witness ==
    /\ req.op = "update"
    /\ ValidBody(Body)
    /\ Live(prev, req.reference_number)
    /\ Body.reference_number # req.reference_number
    /\ Live(prev, Body.reference_number)
    /\ resp.status_code = 400

\* C5: once a delete by reference number has answered 200, a get by the
\* same reference number handled next answers 404.
C5_GetAfterDelete ==
    [][(req.op = "delete" /\ resp.status_code = 200
          /\ req'.op = "get_by_reference"
          /\ req'.reference_number = req.reference_number)
       => resp'.status_code = 404]_vars

\* a delete that answered 200 and removed a record
C5_Witness ==
    /\ req.op = "delete"
    /\ resp.status_code = 200
    /\ Cardinality(store) + 1 = Cardinality(prev)

\* C7: a create or update whose amount is zero or negative fails with 400,
\* whatever the table holds and whether or not the update's target exists.
C7_NonPositiveAmountRejected ==
    (req.op \in {"create", "update"} /\ Body.amount <= 0)
    => resp.status_code = 400

\* an update of a reference number no record holds, otherwise valid, with
\* a zero or negative amount
C7_Witness ==
    /\ req.op = "update"
    /\ ~IsBlank(req.reference_number)
    /\ ~Live(prev, req.reference_number)
    /\ ~IsBlank(Body.reference_number)
    /\ ~IsBlank(Body.payment_method)
    /\ Body.amount <= 0
    /\ resp.status_code = 400

\* C8: a create or update whose reference_number or payment_method is
\* empty or whitespace only fails with 400, and so does a get, update or
\* delete keyed by an empty or whitespace-only reference number.
C8_BlankRejected ==
    /\ (req.op \in {"create", "update"}
          /\ (IsBlank(Body.reference_number) \/ IsBlank(Body.payment_method)))
       => resp.status_code = 400
    /\ (req.op \in {"get_by_reference", "update", "delete"}
          /\ IsBlank(req.reference_number))
       => resp.status_code = 400

\* a create, otherwise valid, whose payment_method is a lone whitespace
\* character
C8_Witness ==
    /\ req.op = "create"
    /\ ~IsBlank(Body.reference_number)
    /\ Body.payment_method # <<>>
    /\ IsBlank(Body.payment_method)
    /\ Body.amount > 0
    /\ resp.status_code = 400

\* C9, as stated: a get by any integer id that matches no live record, and
\* a get by any reference number that matches no live record, yields 404
\* with a detail message.
C9_AbsentIs404 ==
    /\ (req.op = "get_by_id" /\ \A t \in prev : t.id # req.transaction_id)
       => (resp.status_code = 404 /\ resp.detail # "")
    /\ (req.op = "get_by_reference" /\ ~Live(prev, req.reference_number))
       => (resp.status_code = 404 /\ resp.detail # "")

\* C9, amended: a get by a positive id that matches no live record, and a
\* get by a non-blank reference number that matches no live record, yields
\* 404 with a detail message.
C9_AbsentValidKeyIs404 ==
    /\ (req.op = "get_by_id" /\ req.transaction_id > 0
          /\ \A t \in prev : t.id # req.transaction_id)
       => (resp.status_code = 404 /\ resp.detail # "")
    /\ (req.op = "get_by_reference" /\ ~IsBlank(req.reference_number)
          /\ ~Live(prev, req.reference_number))
       => (resp.status_code = 404 /\ resp.detail # "")

\* a get by a positive id no record of a non-empty table has
C9_Witness ==
    /\ req.op = "get_by_id"
    /\ req.transaction_id > 0
    /\ prev # {}
    /\ \A t \in prev : t.id # req.transaction_id
    /\ resp.status_code = 404

\* the request's input is one the validation rules reject
FailsValidation ==
    \/ req.op = "create" /\ ~ValidBody(Body)
    \/ req.op = "get_by_id" /\ req.transaction_id <= 0
    \/ req.op \in {"get_by_reference", "delete"} /\ IsBlank(req.reference_number)
    \/ req.op = "update" /\ (IsBlank(req.reference_number) \/ ~ValidBody(Body))

\* C10: a request that fails input validation is answered 400 without any
\* repository method being invoked, and the stored records are the same
\* after it as before.
C10_ValidationTouchesNothing ==
    FailsValidation
    => /\ resp.status_code = 400
       /\ resp.calls = <<>>
       /\ store = prev

\* an update of a live record refused for its body alone
C10_Witness ==
    /\ req.op = "update"
    /\ Live(prev, req.reference_number)
    /\ ~ValidBody(Body)
    /\ resp.status_code = 400
    /\ resp.calls = <<>>

\* ------------------------------------------------------------------ C11
\* the reference number a racing request wants a record to carry
Target(w) == (CHOOSE b \in inflight[w].body : TRUE).reference_number

\* w's queries found neither NotFound nor Conflict, and w is a create or
\* a rename
PassedPreCheck(w) ==
    /\ inflight[w].pc # "idle"
    /\ inflight[w].raised = {}
    /\ inflight[w].op = "update" => Target(w) # inflight[w].reference_number

\* w and v have ended, each had passed its queries before either wrote,
\* and both want the same reference number
Raced(w, v) ==
    /\ w # v
    /\ inflight[w].pc \in {"stored", "failed"}
    /\ inflight[v].pc \in {"stored", "failed"}
    /\ PassedPreCheck(w)
    /\ PassedPreCheck(v)
    /\ v \in inflight[w].rivals
    /\ Target(w) = Target(v)

\* C11: two creates of one reference number, or a create and a rename to
\* one reference number, interleaved so that both pass the pre-check, leave
\* two live records sharing that reference number.
C11_RaceStoresDuplicate ==
    \A w, v \in Workers :
        (Raced(w, v) /\ "create" \in {inflight[w].op, inflight[v].op})
        => \E t, u \in store :
             /\ t # u
             /\ t.reference_number = Target(w)
             /\ u.reference_number = Target(w)

\* two renames to one reference number raced, and two live records share it
RenamesStoredDuplicate ==
    \E w, v \in Workers :
        /\ Raced(w, v)
        /\ inflight[w].op = "update"
        /\ inflight[v].op = "update"
        /\ \E t, u \in store :
             /\ t # u
             /\ t.reference_number = Target(w)
             /\ u.reference_number = Target(w)

\* two creates of one reference number raced past the pre-check
CreatesRaced ==
    \E w, v \in Workers :
        /\ Raced(w, v)
        /\ inflight[w].op = "create"
        /\ inflight[v].op = "create"

\* ------------------------------------------------------------------ C12
\* C12: whatever creates, updates and deletes went through the service,
\* every live record has an amount above zero and a reference_number and a
\* payment_method that are not blank once trimmed.
C12_RecordsValid ==
    \A t \in store :
        /\ t.amount > 0
        /\ ~IsBlank(t.reference_number)
        /\ ~IsBlank(t.payment_method)

\* an update has just written its body's values into a record
C12_Witness ==
    /\ req.op = "update"
    /\ resp.status_code = 200
    /\ \E t \in store \ prev :
         /\ t.amount = Body.amount
         /\ t.payment_method = Body.payment_method
         /\ t.reference_number = Body.reference_number

\* ------------------------------------------------------------------ C15
\* C15: a successful update changes exactly one record: the one that held
\* the key gets the input's reference_number, payment_method and amount and
\* the server's current date and time, and keeps its id; every other record
\* and the number of records stay as they were.
C15_UpdateChangesOneRecord ==
    (req.op = "update" /\ resp.status_code = 200)
    => \E old \in prev, new \in store :
         /\ old.reference_number = req.reference_number
         /\ new.id = old.id
         /\ new.reference_number = Body.reference_number
         /\ new.payment_method = Body.payment_method
         /\ new.amount = Body.amount
         /\ new.date = date(req.now)
         /\ new.time = time(req.now)
         /\ store \ {new} = prev \ {old}
         /\ Cardinality(store) = Cardinality(prev)

\* an update that went through after the clock moved, next to another record
C15_Witness ==
    /\ req.op = "update"
    /\ resp.status_code = 200
    /\ req.now > 0
    /\ Cardinality(prev) = 2
    /\ store # prev

\* ------------------------------------------------------------------ C16
\* C16: a valid update or delete whose key no live record holds fails with
\* 404 "Transaction not found" and changes nothing; for update also when
\* the input's reference_number is one a live record holds.
C16_AbsentKeyIs404 ==
    (/\ ~IsBlank(req.reference_number)
     /\ ~Live(prev, req.reference_number)
     /\ \/ req.op = "delete"
        \/ req.op = "update" /\ ValidBody(Body))
    => /\ resp.status_code = 404
       /\ resp.detail = "Transaction not found"
       /\ store = prev

\* an update of an absent key to a reference number a live record holds
C16_Witness ==
    /\ req.op = "update"
    /\ ValidBody(Body)
    /\ ~IsBlank(req.reference_number)
    /\ ~Live(prev, req.reference_number)
    /\ Live(prev, Body.reference_number)
    /\ resp.status_code = 404

\* ------------------------------------------------------------------ C17
\* the last request renamed a record
Renamed ==
    /\ req.op = "update"
    /\ resp.status_code = 200
    /\ Body.reference_number # req.reference_number

\* C17: right after a successful rename from r to r2, a get by r answers
\* 404, a get by r2 answers the record with the id it had before, and a
\* create with r gets past the uniqueness pre-check.
C17_AfterRename ==
    [][Renamed =>
         /\ (req'.op = "get_by_reference"
               /\ req'.reference_number = req.reference_number)
            => resp'.status_code = 404
         /\ (req'.op = "get_by_reference"
               /\ req'.reference_number = Body.reference_number)
            => /\ resp'.status_code = 200
               /\ \E old \in prev, got \in resp'.body :
                    /\ old.reference_number = req.reference_number
                    /\ got.id = old.id
                    /\ got.reference_number = Body.reference_number
         /\ (req'.op = "create"
               /\ \E b \in req'.body :
                    ValidBody(b) /\ b.reference_number = req.reference_number)
            => /\ resp'.calls = <<"create">>
               /\ resp'.detail # "Reference number already exists"
               /\ resp'.status_code # 400]_vars

\* a rename has just gone through
C17_Witness ==
    /\ Renamed
    /\ Live(prev, req.reference_number)
    /\ ~Live(store, req.reference_number)
    /\ Live(store, Body.reference_number)

\* the statuses the status table allows an operation
StatusTable(op) ==
    IF op = "create" THEN {201, 400, 500} ELSE {200, 400, 404, 500}

\* the detail of the repository's own 500 for an operation
FailureDetail(op) ==
    CASE op = "create" -> "Failed to create transaction"
      [] op = "update" -> "Failed to update transaction"
      [] op = "delete" -> "Failed to delete transaction"
      [] OTHER -> "Failed to retrieve transaction"

\* the last request reached its handler, which is what the fields fault
\* and parsed are recorded for
Handled == req # NoRequest /\ req.parsed

\* the last request's repository call returned a record to convert
ReturnedRecord ==
    /\ ~FailsValidation
    /\ req.fault = "convert"
    /\ \/ req.op = "get_by_id" /\ \E t \in prev : t.id = req.transaction_id
       \/ req.op = "get_by_reference" /\ Live(prev, req.reference_number)
       \/ /\ req.op = "update"
          /\ Live(prev, req.reference_number)
          /\ (Body.reference_number = req.reference_number
              \/ ~Live(prev, Body.reference_number))

\* what C13 says of the last request
C13_Outcome ==
    /\ resp.status_code \in StatusTable(req.op)
    /\ ReturnedRecord
       => (resp.status_code = 500 /\ resp.detail = "Internal server error")
    /\ resp.detail = "Internal server error" => ReturnedRecord
    /\ FailsValidation
       => (resp.status_code = 400
           /\ resp.detail \notin {"", "Internal server error"})
    /\ (~FailsValidation /\ req.fault = "query")
       => (resp.status_code = 500 /\ resp.detail = FailureDetail(req.op))
    /\ (/\ ~FailsValidation
        /\ req.fault # "query"
        /\ \/ req.op = "get_by_id" /\ \A t \in prev : t.id # req.transaction_id
           \/ /\ req.op \in {"get_by_reference", "update", "delete"}
              /\ ~Live(prev, req.reference_number))
       => (resp.status_code = 404 /\ resp.detail = "Transaction not found")

StorageFault ==
    /\ Handled
    /\ req.op \in {"create", "update", "delete"}
    /\ resp.detail = FailureDetail(req.op)

\* C14: a create, update or delete that meets a storage fault is answered
\* 500 and leaves the committed records as they were before the request.
C14_FaultLeavesStore ==
    StorageFault => (resp.status_code = 500 /\ store = prev)

\* a faulted update answered 500 whose write is committed all the same
C14_CommittedDespite500 ==
    /\ StorageFault
    /\ req.op = "update"
    /\ req.fault = "refresh"
    /\ resp.status_code = 500
    /\ store # prev

====
